---- MODULE Spec2Model ----
(***************************************************************************)
(* Model of log_retainer.py: LogRetainFilter, LogRetainSuppress and        *)
(* LogRetainHandler (emit, addFilter, getLogEntries).                      *)
(*                                                                         *)
(* Python values are modelled as follows.                                  *)
(*   - None is modelled by 0.  The only place a None is tested is the      *)
(*     truthiness test "if toRemove:", which is false for None and for 0   *)
(*     alike, and sequence numbers start at 1.                             *)
(*   - a list is a sequence; an OrderedDict is the sequence of its items   *)
(*     in insertion order.                                                 *)
(*   - format(record) belongs to the logging framework; the rendered text  *)
(*     is modelled by the pair <<name, levelno>> of the record.            *)
(*   - an exception ends emit at the statement that raises it; every       *)
(*     mutation made before that statement stays.                          *)
(***************************************************************************)
EXTENDS Integers, Sequences, FiniteSets, TLC

\* ---------------------------------------------------------------- bounds
MaxSeq == 3          \* number of records that are given a sequence number
MaxCap == 2          \* largest retain count of the levels
MaxCount == 2        \* largest count of a LogRetainFilter
MaxFilters == 2      \* longest filter chain

\* logging level numbers
DEBUG == 10
INFO == 20
WARNING == 30

\* the records logged: one below the minimum level, two loggers at the minimum
\* level (which the retain dict may lack), one at a level above it
Records == { [name |-> "X", levelno |-> DEBUG],
             [name |-> "X", levelno |-> INFO],
             [name |-> "Y", levelno |-> INFO],
             [name |-> "X", levelno |-> WARNING] }
\* the key sets of the retain dict: with and without the minimum level
RetainLevelSets == {{INFO, WARNING}, {WARNING}}
FilterNames == {"X"}                     \* names filters are created for
FilterLevels == {INFO}            \* levels filters are created for

Errors == {"AttributeError", "ValueError", "KeyError", "TypeError", "IndexError"}

VARIABLES
    retainSetup,   \* self.retainSetup : level -> number to retain
    level,         \* self.level       : minimum level kept at all
    logSeq,        \* self.logSeq
    index,         \* self._index      : OrderedDict, as the sequence of its items
    retain,        \* self._retain     : level -> list of sequence numbers
    filters,       \* self._filters    : list of filters
    last,          \* the last call made, how it ended and what it yielded
    accepted,      \* history: the records given a sequence number, in order
    early,         \* history: for each filter, was it added before any record
    gen            \* the generator made by get(), and what it has yielded

vars == <<retainSetup, level, logSeq, index, retain, filters, last, accepted, early,
          gen>>

\* ------------------------------------------------------- list / dict helpers
Range(s) == {s[i] : i \in 1..Len(s)}

\* list.index(x): position of the first occurrence, 0 when absent (ValueError)
ListIndex(s, x) ==
    IF x \in Range(s) THEN CHOOSE i \in 1..Len(s) : s[i] = x /\ \A j \in 1..(i-1) : s[j] # x
    ELSE 0

\* list.pop(i) with a 1-based position: the list without its i-th element
ListPop(s, i) == [j \in 1..(Len(s)-1) |-> IF j < i THEN s[j] ELSE s[j+1]]

\* keys of the OrderedDict in insertion order
Keys(d) == [i \in 1..Len(d) |-> d[i].seq]

\* key in d
HasKey(d, k) == \E i \in 1..Len(d) : d[i].seq = k

\* DictSet with the new key put first instead of last
DictSetFirst(d, k, v) ==
    IF HasKey(d, k)
    THEN [i \in 1..Len(d) |-> IF d[i].seq = k THEN [seq |-> k, txt |-> v] ELSE d[i]]
    ELSE <<[seq |-> k, txt |-> v]>> \o d

\* d[k] = v : an existing key keeps its position, a new key goes last
DictSet(d, k, v) ==
    IF HasKey(d, k)
    THEN [i \in 1..Len(d) |-> IF d[i].seq = k THEN [seq |-> k, txt |-> v] ELSE d[i]]
    ELSE Append(d, [seq |-> k, txt |-> v])

\* d.pop(k) for a key that is present
DictPop(d, k) == ListPop(d, CHOOSE i \in 1..Len(d) : d[i].seq = k)

\* ------------------------------------------------------------------ filters
\* LogRetainFilter.__init__ (LogRetainSuppress inherits it)
NewFilter(kind, name, lvl, count) ==
    [kind |-> kind, name |-> name, level |-> lvl, count |-> count, index |-> <<>>]

\* LogRetainFilter.filter: the value returned (rm), the filter afterwards (f)
\* and the exception raised, if any (err)
RetainFilter(f, seq, rec) ==
    IF rec.name = f.name /\ rec.levelno = f.level
    THEN IF Len(f.index) >= f.count
         THEN IF f.index = <<>>
              THEN [rm |-> 0, f |-> f, err |-> "IndexError"]
              ELSE [rm |-> Head(f.index),
                    f |-> [f EXCEPT !.index = Append(Tail(f.index), seq)],
                    err |-> "none"]
         ELSE [rm |-> 0, f |-> [f EXCEPT !.index = Append(f.index, seq)], err |-> "none"]
    ELSE [rm |-> 0, f |-> f, err |-> "none"]

\* LogRetainSuppress.filter
SuppressFilter(f, seq, rec) ==
    IF rec.name = f.name /\ rec.levelno = f.level
    THEN [rm |-> seq, f |-> f, err |-> "none"]
    ELSE [rm |-> 0, f |-> f, err |-> "none"]

\* filter.filter(self.logSeq, record): dispatch on the class of the filter
FilterCall(f, seq, rec) ==
    IF f.kind = "Suppress" THEN SuppressFilter(f, seq, rec) ELSE RetainFilter(f, seq, rec)

\* --------------------------------------------------------------------- emit
\* NextSeq that restarts at 1 instead of counting on
NextSeqReset(n) == 1

\* self.logSeq += 1
NextSeq(n) == n + 1

\* FilterLoop that goes on to the later filters after a suppression
RECURSIVE FilterLoopAll(_, _, _, _, _, _)
FilterLoopAll(fs, i, ret, idx, seq, rec) ==
    IF i > Len(fs)
    THEN [filters |-> fs, retain |-> ret, index |-> idx, out |-> "continue"]
    ELSE LET r == FilterCall(fs[i], seq, rec)
             fs2 == [fs EXCEPT ![i] = r.f]
             lvl == rec.levelno
         IN  IF r.err # "none"
             THEN [filters |-> fs2, retain |-> ret, index |-> idx, out |-> r.err]
             ELSE IF r.rm = 0
             THEN FilterLoopAll(fs2, i + 1, ret, idx, seq, rec)
             ELSE IF r.rm = seq
             THEN [filters |-> FilterLoopAll(fs2, i + 1, ret, idx, seq, rec).filters,
                   retain |-> ret, index |-> idx, out |-> "suppressed"]
             ELSE IF lvl \notin DOMAIN ret
             THEN [filters |-> fs2, retain |-> ret, index |-> idx, out |-> "AttributeError"]
             ELSE IF ListIndex(ret[lvl], r.rm) = 0
             THEN [filters |-> fs2, retain |-> ret, index |-> idx, out |-> "ValueError"]
             ELSE LET ret2 == [ret EXCEPT ![lvl] = ListPop(ret[lvl], ListIndex(ret[lvl], r.rm))]
                  IN  IF ~HasKey(idx, r.rm)
                      THEN [filters |-> fs2, retain |-> ret2, index |-> idx, out |-> "KeyError"]
                      ELSE FilterLoopAll(fs2, i + 1, ret2, DictPop(idx, r.rm), seq, rec)

\* FilterLoop that passes over a number it finds neither in the level's list
\* nor in the index
RECURSIVE FilterLoopTolerant(_, _, _, _, _, _)
FilterLoopTolerant(fs, i, ret, idx, seq, rec) ==
    IF i > Len(fs)
    THEN [filters |-> fs, retain |-> ret, index |-> idx, out |-> "continue"]
    ELSE LET r == FilterCall(fs[i], seq, rec)
             fs2 == [fs EXCEPT ![i] = r.f]
             lvl == rec.levelno
         IN  IF r.err # "none"
             THEN [filters |-> fs2, retain |-> ret, index |-> idx, out |-> r.err]
             ELSE IF r.rm = 0
             THEN FilterLoopTolerant(fs2, i + 1, ret, idx, seq, rec)
             ELSE IF r.rm = seq
             THEN [filters |-> fs2, retain |-> ret, index |-> idx, out |-> "suppressed"]
             ELSE IF lvl \notin DOMAIN ret
             THEN [filters |-> fs2, retain |-> ret, index |-> idx, out |-> "AttributeError"]
             ELSE IF ListIndex(ret[lvl], r.rm) = 0
             THEN FilterLoopTolerant(fs2, i + 1, ret,
                      IF HasKey(idx, r.rm) THEN DictPop(idx, r.rm) ELSE idx, seq, rec)
             ELSE LET ret2 == [ret EXCEPT ![lvl] = ListPop(ret[lvl], ListIndex(ret[lvl], r.rm))]
                  IN  IF ~HasKey(idx, r.rm)
                      THEN FilterLoopTolerant(fs2, i + 1, ret2, idx, seq, rec)
                      ELSE FilterLoopTolerant(fs2, i + 1, ret2, DictPop(idx, r.rm), seq, rec)

\* the loop over self._filters, from the i-th filter on.  out is "continue"
\* when the loop ran to its end, "suppressed" at the early return, and the
\* name of the exception otherwise.
RECURSIVE FilterLoop(_, _, _, _, _, _)
FilterLoop(fs, i, ret, idx, seq, rec) ==
    IF i > Len(fs)
    THEN [filters |-> fs, retain |-> ret, index |-> idx, out |-> "continue"]
    ELSE LET r == FilterCall(fs[i], seq, rec)
             fs2 == [fs EXCEPT ![i] = r.f]
             lvl == rec.levelno
         IN  IF r.err # "none"
             THEN [filters |-> fs2, retain |-> ret, index |-> idx, out |-> r.err]
             ELSE IF r.rm = 0
             THEN FilterLoop(fs2, i + 1, ret, idx, seq, rec)
             ELSE IF r.rm = seq
             THEN [filters |-> fs2, retain |-> ret, index |-> idx, out |-> "suppressed"]
             ELSE IF lvl \notin DOMAIN ret      \* lvlRecs is None
             THEN [filters |-> fs2, retain |-> ret, index |-> idx, out |-> "AttributeError"]
             ELSE IF ListIndex(ret[lvl], r.rm) = 0
             THEN [filters |-> fs2, retain |-> ret, index |-> idx, out |-> "ValueError"]
             ELSE LET ret2 == [ret EXCEPT ![lvl] = ListPop(ret[lvl], ListIndex(ret[lvl], r.rm))]
                  IN  IF ~HasKey(idx, r.rm)
                      THEN [filters |-> fs2, retain |-> ret2, index |-> idx, out |-> "KeyError"]
                      ELSE FilterLoop(fs2, i + 1, ret2, DictPop(idx, r.rm), seq, rec)

\* DefaultRoll that tests len(lvlRecs) > cap instead of >=
DefaultRollLate(q, idx, cap) ==
    IF Len(q) > cap
    THEN IF q = <<>>
         THEN [q |-> q, index |-> idx, out |-> "IndexError"]
         ELSE IF ~HasKey(idx, Head(q))
              THEN [q |-> Tail(q), index |-> idx, out |-> "KeyError"]
              ELSE [q |-> Tail(q), index |-> DictPop(idx, Head(q)), out |-> "ok"]
    ELSE [q |-> q, index |-> idx, out |-> "ok"]

\* DefaultRoll that drops the oldest item of the index, whatever its level
DefaultRollOldest(q, idx, cap) ==
    IF Len(q) >= cap
    THEN IF q = <<>>
         THEN [q |-> q, index |-> idx, out |-> "IndexError"]
         ELSE [q |-> Tail(q), index |-> Tail(idx), out |-> "ok"]
    ELSE [q |-> q, index |-> idx, out |-> "ok"]

\* DefaultRoll that drops the newest entry of the level instead of the oldest
DefaultRollNewest(q, idx, cap) ==
    IF Len(q) >= cap
    THEN IF q = <<>>
         THEN [q |-> q, index |-> idx, out |-> "IndexError"]
         ELSE IF ~HasKey(idx, q[Len(q)])
              THEN [q |-> SubSeq(q, 1, Len(q) - 1), index |-> idx, out |-> "KeyError"]
              ELSE [q |-> SubSeq(q, 1, Len(q) - 1), index |-> DictPop(idx, q[Len(q)]),
                    out |-> "ok"]
    ELSE [q |-> q, index |-> idx, out |-> "ok"]

\* "check if historic entry must go to accept new": the level's list q and
\* the index after the check, for a level that retains cap entries
DefaultRoll(q, idx, cap) ==
    IF Len(q) >= cap
    THEN IF q = <<>>
         THEN [q |-> q, index |-> idx, out |-> "IndexError"]
         ELSE IF ~HasKey(idx, Head(q))
              THEN [q |-> Tail(q), index |-> idx, out |-> "KeyError"]
              ELSE [q |-> Tail(q), index |-> DictPop(idx, Head(q)), out |-> "ok"]
    ELSE [q |-> q, index |-> idx, out |-> "ok"]

\* Accept that decides on the default roll by the length the level's list had
\* before the filters ran
AcceptRollFirst(rec) ==
    LET seq == NextSeq(logSeq)
        lvl == rec.levelno
        fl == FilterLoop(filters, 1, retain, index, seq, rec)
        idx2 == DictSet(fl.index, seq, <<rec.name, rec.levelno>>)
    IN  IF fl.out # "continue"
        THEN [logSeq |-> seq, filters |-> fl.filters, retain |-> fl.retain,
              index |-> fl.index, out |-> fl.out]
        ELSE IF lvl \notin DOMAIN fl.retain
        THEN [logSeq |-> seq, filters |-> fl.filters, retain |-> fl.retain,
              index |-> idx2, out |-> "TypeError"]
        ELSE LET gone == Len(retain[lvl]) - Len(fl.retain[lvl])
                 dr == DefaultRoll(fl.retain[lvl], idx2, retainSetup[lvl] - gone)
             IN  IF dr.out # "ok"
                 THEN [logSeq |-> seq, filters |-> fl.filters,
                       retain |-> [fl.retain EXCEPT ![lvl] = dr.q],
                       index |-> dr.index, out |-> dr.out]
                 ELSE [logSeq |-> seq, filters |-> fl.filters,
                       retain |-> [fl.retain EXCEPT ![lvl] = Append(dr.q, seq)],
                       index |-> dr.index, out |-> "ok"]

\* the body of emit for a record whose level is in scope
Accept(rec) ==
    LET seq == NextSeq(logSeq)
        lvl == rec.levelno
        fl == FilterLoop(filters, 1, retain, index, seq, rec)
        idx2 == DictSet(fl.index, seq, <<rec.name, rec.levelno>>)
    IN  IF fl.out # "continue"
        THEN [logSeq |-> seq, filters |-> fl.filters, retain |-> fl.retain,
              index |-> fl.index, out |-> fl.out]
        ELSE IF lvl \notin DOMAIN fl.retain      \* len(None)
        THEN [logSeq |-> seq, filters |-> fl.filters, retain |-> fl.retain,
              index |-> idx2, out |-> "TypeError"]
        ELSE LET dr == DefaultRoll(fl.retain[lvl], idx2, retainSetup[lvl])
             IN  IF dr.out # "ok"
                 THEN [logSeq |-> seq, filters |-> fl.filters,
                       retain |-> [fl.retain EXCEPT ![lvl] = dr.q],
                       index |-> dr.index, out |-> dr.out]
                 ELSE [logSeq |-> seq, filters |-> fl.filters,
                       retain |-> [fl.retain EXCEPT ![lvl] = Append(dr.q, seq)],
                       index |-> dr.index, out |-> "ok"]

\* Emit that counts the record before it looks at its level
EmitCountFirst(rec) ==
    IF rec.levelno >= level
    THEN Accept(rec)
    ELSE [logSeq |-> NextSeq(logSeq), filters |-> filters, retain |-> retain,
          index |-> index, out |-> "ignored"]

\* LogRetainHandler.emit: the handler's state after the call and how it ended
Emit(rec) ==
    IF rec.levelno >= level
    THEN Accept(rec)
    ELSE [logSeq |-> logSeq, filters |-> filters, retain |-> retain,
          index |-> index, out |-> "ignored"]

\* LogRetainHandler.getLogEntries: the (idx, txt) pairs it yields, in order
getLogEntries == [i \in 1..Len(index) |-> <<index[i].seq, index[i].txt>>]

\* getLogEntries that takes the items out of the index as it yields them
EntriesRunPop(d) ==
    [out |-> [i \in 1..Len(d) |-> <<d[i].seq, d[i].txt>>], index |-> <<>>]

\* LogRetainHandler.getLogEntries consumed to its end on the index d: the
\* pairs it yields and the index afterwards
EntriesRun(d) ==
    [out |-> [i \in 1..Len(d) |-> <<d[i].seq, d[i].txt>>], index |-> d]

\* ---------------------------------------------------------------------- get
\* no generator of get() is alive
NoGen == [pc |-> "none", keys |-> <<>>, lines |-> <<>>, summary |-> <<>>, at |-> 0]

\* list(self._index.keys()) in list order instead of reversed
SnapshotForward(d) == Keys(d)

\* reversed(list(self._index.keys())): the keys of the index, newest first
Snapshot(d) == [i \in 1..Len(d) |-> d[Len(d) + 1 - i].seq]

\* d[k] for a key that is present
DictGet(d, k) == d[CHOOSE i \in 1..Len(d) : d[i].seq = k].txt

\* the generator g run from the head of its for loop to its next yield, on
\* the index d.  With keys left it looks the next key up and yields its
\* line, or ends in KeyError; with none left it yields the summary line,
\* which is its last (the memory figures of gc are not modelled).
GenRun(g, d) ==
    IF g.keys = <<>>
    THEN [g EXCEPT !.pc = "done", !.summary = <<Len(d)>>]
    ELSE IF ~HasKey(d, Head(g.keys))
         THEN [g EXCEPT !.pc = "failed"]
         ELSE [g EXCEPT !.pc = "loop", !.keys = Tail(g.keys),
                        !.lines = Append(g.lines, <<Head(g.keys), DictGet(d, Head(g.keys))>>)]

\* the first next() on a new generator of get(): it takes the key snapshot
\* and runs to the first yield.  at is history: logSeq at that moment.
GenStart(d) ==
    GenRun([pc |-> "loop", keys |-> Snapshot(d), lines |-> <<>>, summary |-> <<>>,
            at |-> logSeq], d)

\* ----------------------------------------------------------------- actions
\* LogRetainHandler.__init__
Init ==
    /\ \E c \in 1..MaxCap, D \in RetainLevelSets : retainSetup = [k \in D |-> c]
    /\ level = INFO
    /\ logSeq = 0
    /\ index = <<>>
    /\ retain = [k \in DOMAIN retainSetup |-> <<>>]
    /\ filters = <<>>
    /\ last = [op |-> "init", name |-> "", levelno |-> 0, out |-> "ok", res |-> <<>>]
    /\ accepted = <<>>
    /\ early = <<>>
    /\ gen = NoGen

emit ==
    \E rec \in Records :
        LET n == rec.name
            l == rec.levelno
            r == Emit(rec)
        IN  /\ l >= level => logSeq < MaxSeq
            /\ logSeq' = r.logSeq
            /\ filters' = r.filters
            /\ retain' = r.retain
            /\ index' = r.index
            /\ last' = [op |-> "emit", name |-> n, levelno |-> l, out |-> r.out, res |-> <<>>]
            /\ accepted' = IF l >= level
                           THEN Append(accepted, [seq |-> r.logSeq, name |-> n, levelno |-> l])
                           ELSE accepted
            /\ UNCHANGED <<retainSetup, level, early, gen>>

addFilter ==
    \E k \in {"Retain", "Suppress"}, n \in FilterNames, l \in FilterLevels, c \in 1..MaxCount :
        /\ Len(filters) < MaxFilters
        /\ k = "Suppress" => c = 1      \* LogRetainSuppress never reads count
        /\ filters' = Append(filters, NewFilter(k, n, l, c))
        /\ early' = Append(early, logSeq = 0)
        /\ last' = [op |-> "addFilter", name |-> n, levelno |-> l, out |-> "ok", res |-> <<>>]
        /\ UNCHANGED <<retainSetup, level, logSeq, index, retain, accepted, gen>>

Next == emit \/ addFilter

\* a call of getLogEntries() consumed to its end
entries ==
    /\ index' = EntriesRun(index).index
    /\ last' = [op |-> "entries", name |-> "", levelno |-> 0, out |-> "ok",
                res |-> EntriesRun(index).out]
    /\ UNCHANGED <<retainSetup, level, logSeq, retain, filters, accepted, early, gen>>

\* one next() on the generator of get(); a new call of get() when no
\* generator is alive or the last one has ended
get ==
    /\ gen' = IF gen.pc = "loop" THEN GenRun(gen, index) ELSE GenStart(index)
    /\ last' = [op |-> "get", name |-> "", levelno |-> 0,
                out |-> IF gen'.pc = "failed" THEN "KeyError" ELSE "ok", res |-> <<>>]
    /\ UNCHANGED <<retainSetup, level, logSeq, index, retain, filters, accepted, early>>

\* addFilter on a handler that has no filter yet
addFirstFilter == filters = <<>> /\ addFilter

NextRetrieval == emit \/ addFirstFilter \/ entries \/ get

Spec == Init /\ [][Next]_vars

\* LogRetainHandler.__init__ with any integer as the retain count of the
\* levels in scope: the constructor stores the retain dict as it is given
InitAnyCap ==
    /\ \E c \in (-1)..MaxCap : retainSetup = [k \in {INFO, WARNING} |-> c]
    /\ level = INFO
    /\ logSeq = 0
    /\ index = <<>>
    /\ retain = [k \in DOMAIN retainSetup |-> <<>>]
    /\ filters = <<>>
    /\ last = [op |-> "init", name |-> "", levelno |-> 0, out |-> "ok", res |-> <<>>]
    /\ accepted = <<>>
    /\ early = <<>>
    /\ gen = NoGen

SpecAnyCap == InitAnyCap /\ [][Next]_vars

\* the handler with its retrieval operations in use and at most one filter
SpecRetrieval == Init /\ [][NextRetrieval]_vars

\* ------------------------------------------------------- derived notions
\* the sequence numbers held by some per-level retain list
Retained == UNION {Range(retain[k]) : k \in DOMAIN retain}

\* the key set of the index
KeySet == Range(Keys(index))

\* the levels records are logged at
AllLevels == {r.levelno : r \in Records}

\* the items of the index that belong to level m, in index order
ItemsOfLevel(d, m) == SelectSeq(d, LAMBDA e : e.txt[2] = m)

\* the records accepted so far with logger name n and level l
AcceptedWith(n, l) == {a \in Range(accepted) : a.name = n /\ a.levelno = l}

\* the c most recent of the records accepted with logger name n and level l
MostRecent(n, l, c) ==
    {a \in AcceptedWith(n, l) : Cardinality({b \in AcceptedWith(n, l) : b.seq > a.seq}) < c}

\* the sequence numbers in the index whose record had logger name n and level l
RetainedWith(n, l) == {index[i].seq : i \in {j \in 1..Len(index) : index[j].txt = <<n, l>>}}

\* the last call was an emit of a record whose level is in scope
LastAccepted == last.op = "emit" /\ last.levelno >= level

\* ------------------------------------------------------------------ claims

\* C1: every per-level retain list holds at most as many sequence numbers as
\* the retain setup gives its level.
CapacityInvariant ==
    \A L \in DOMAIN retainSetup : Len(retain[L]) <= retainSetup[L]

\* a level's list is full after more records of that level than it can hold
CapacityWitness ==
    \E L \in DOMAIN retainSetup :
        /\ last.op = "emit" /\ last.out = "ok" /\ last.levelno = L
        /\ Len(retain[L]) = retainSetup[L]
        /\ Cardinality({a \in Range(accepted) : a.levelno = L}) > retainSetup[L]

\* C2: the key set of the index equals the union of the per-level retain
\* lists, in every reachable state, also after an emit that raised.
IndexConsistency == KeySet = Retained

\* C3: getLogEntries yields the retained entries in strictly increasing
\* sequence-number order, whatever their levels and whatever was evicted.
ChronologicalOrder ==
    \A i, j \in 1..Len(getLogEntries) :
        i < j => getLogEntries[i][1] < getLogEntries[j][1]

\* records I1, W2, I3 with one INFO entry retained: the entries are 2 and 3,
\* of two levels, after the first INFO entry was rolled out
ChronologicalWitness ==
    /\ filters = <<>> /\ INFO \in DOMAIN retain
    /\ Len(getLogEntries) = 2
    /\ getLogEntries[1] = <<2, <<"X", WARNING>>>>
    /\ getLogEntries[2][1] = 3 /\ getLogEntries[2][2][2] = INFO

\* C4: under a valid configuration (positive retain counts, every record at a
\* retained level, at most one filter per (name, level), filters added before
\* the first record) no emit raises.
ValidConfiguration ==
    /\ \A L \in DOMAIN retainSetup : retainSetup[L] > 0
    /\ \A a \in Range(accepted) : a.levelno \in DOMAIN retainSetup
    /\ \A i, j \in 1..Len(filters) :
           i # j => <<filters[i].name, filters[i].level>> # <<filters[j].name, filters[j].level>>
    /\ \A i \in 1..Len(early) : early[i]

SteadyStateNoError == ValidConfiguration => last.out \notin Errors

\* C5: for a LogRetainFilter with count n on (name, level) added before any
\* record, the retained entries with that name and level are at most n and
\* all among the n most recent records accepted with that name and level.
FilterCapacity ==
    \A i \in 1..Len(filters) :
        (filters[i].kind = "Retain" /\ early[i]) =>
            LET f == filters[i]
            IN  /\ Cardinality(RetainedWith(f.name, f.level)) <= f.count
                /\ RetainedWith(f.name, f.level)
                       \subseteq {a.seq : a \in MostRecent(f.name, f.level, f.count)}

\* C6: once a LogRetainSuppress on (name, level) is in the chain, an emit of
\* a record with that name and level puts nothing into the index and leaves
\* the retain list of the level as it was.
SuppressionStep ==
    \A i \in 1..Len(filters) :
        ( /\ filters[i].kind = "Suppress"
          /\ last'.op = "emit" /\ last'.levelno >= level
          /\ last'.name = filters[i].name /\ last'.levelno = filters[i].level )
        => /\ Range(Keys(index')) \subseteq Range(Keys(index))
           /\ last'.levelno \in DOMAIN retain => retain'[last'.levelno] = retain[last'.levelno]

Suppression == [][SuppressionStep]_vars

\* C7: an emit of a record whose level is in scope but not in the retain
\* setup raises nothing, and such a record is never in the index.
UnconfiguredPassThrough ==
    /\ \A i \in 1..Len(index) : index[i].txt[2] \in DOMAIN retainSetup
    /\ (LastAccepted /\ last.levelno \notin DOMAIN retainSetup) => last.out \notin Errors

\* C8: an emit of a record below the minimum level changes neither logSeq nor
\* any filter nor any retain list nor the index.
ThresholdGate ==
    [][(last'.op = "emit" /\ last'.levelno < level)
          => UNCHANGED <<logSeq, filters, retain, index>>]_vars

\* a record below the minimum level has just been logged to a handler that
\* holds entries and has a filter with a non-empty list
ThresholdWitness ==
    /\ last.op = "emit" /\ last.levelno < level /\ last.out = "ignored"
    /\ logSeq > 0 /\ index # <<>>
    /\ \E i \in 1..Len(filters) : filters[i].index # <<>>

\* C9: an emit of a record of level L leaves, for every other level M, the
\* retain list of M and the index items of level M as they were.
PerLevelIsolationStep ==
    last'.op = "emit" =>
        \A M \in AllLevels \ {last'.levelno} :
            /\ M \in DOMAIN retain => retain'[M] = retain[M]
            /\ ItemsOfLevel(index', M) = ItemsOfLevel(index, M)

PerLevelIsolation == [][PerLevelIsolationStep]_vars

\* an INFO record has just rolled out an INFO entry while a WARNING entry is
\* retained
IsolationWitness ==
    /\ last.op = "emit" /\ last.out = "ok" /\ last.levelno = INFO
    /\ INFO \in DOMAIN retain
    /\ retain[WARNING] # <<>>
    /\ Cardinality({a \in Range(accepted) : a.levelno = INFO}) > Len(retain[INFO])

\* C10: the first accepted record gets 1, every accepted record (suppressed
\* ones included) gets a number greater than all numbers given before, and no
\* number is held twice by the index or by the retain lists.
SequenceNumbers ==
    /\ accepted = <<>> => logSeq = 0
    /\ accepted # <<>> => accepted[1].seq = 1 /\ accepted[Len(accepted)].seq = logSeq
    /\ \A i, j \in 1..Len(accepted) : i < j => accepted[i].seq < accepted[j].seq
    /\ \A i, j \in 1..Len(index) : i # j => index[i].seq # index[j].seq
    /\ \A e \in KeySet \cup Retained : e \in 1..logSeq
    /\ \A K, M \in DOMAIN retain : \A i \in 1..Len(retain[K]), j \in 1..Len(retain[M]) :
           (K # M \/ i # j) => retain[K][i] # retain[M][j]

\* three records were given numbers, the last one was suppressed and an
\* earlier one is retained
SequenceWitness ==
    /\ Len(accepted) = 3 /\ last.out = "suppressed"
    /\ index # <<>>

\* ---------------------------------------------- notions about the filters
\* filter f is of kind k and matches a record with logger name n and level l
Matches(f, k, n, l) == f.kind = k /\ f.name = n /\ f.level = l

\* the positions of the LogRetainFilters that return a number to remove for a
\* record with logger name n and level l: they match and their list is full
Returning(n, l) ==
    {i \in 1..Len(filters) :
        /\ Matches(filters[i], "Retain", n, l)
        /\ filters[i].index # <<>>
        /\ Len(filters[i].index) >= filters[i].count}

\* the numbers those filters return
Named(n, l) == {Head(filters[i].index) : i \in Returning(n, l)}

\* the positions of the LogRetainSuppress filters that match such a record
Suppressing(n, l) == {i \in 1..Len(filters) : Matches(filters[i], "Suppress", n, l)}

\* the sequence numbers of the records accepted at level l, in order
SeqsAt(l) ==
    LET a == SelectSeq(accepted, LAMBDA r : r.levelno = l)
    IN  [i \in 1..Len(a) |-> a[i].seq]

\* the last c elements of the sequence s
LastOf(s, c) == IF Len(s) <= c THEN s ELSE SubSeq(s, Len(s) - c + 1, Len(s))

\* the step is an emit of a record whose level is in scope
AcceptStep == last'.op = "emit" /\ last'.levelno >= level

\* C14: an emit of a record at a retained level in scope that no
\* LogRetainSuppress matches ends with the record retained: its number is the
\* last key of the index and the last element of its level's list.
NewestRetained ==
    ( /\ LastAccepted
      /\ last.levelno \in DOMAIN retainSetup
      /\ Suppressing(last.name, last.levelno) = {} )
    => /\ index # <<>> /\ index[Len(index)].seq = logSeq
       /\ retain[last.levelno] # <<>>
       /\ retain[last.levelno][Len(retain[last.levelno])] = logSeq

\* C15: an emit that ends in suppression leaves every retain list and the
\* index as they were.
SuppressionFrame ==
    [][(last'.op = "emit" /\ last'.out = "suppressed") => UNCHANGED <<retain, index>>]_vars

\* C16: when the level's list is full and a filter takes one of its entries
\* out in this emit, every entry of the level that no filter names is still
\* in the list and in the index afterwards: the default roll removes nothing.
EvictionOrderingStep ==
    LET n == last'.name
        l == last'.levelno
    IN  ( /\ AcceptStep
          /\ l \in DOMAIN retain
          /\ Len(retain[l]) >= retainSetup[l]
          /\ \E e \in Named(n, l) : e \in Range(retain[l]) /\ e \notin Range(retain'[l]) )
        => \A x \in Range(retain[l]) \ Named(n, l) :
               x \in Range(retain'[l]) /\ HasKey(index', x)

EvictionOrdering == [][EvictionOrderingStep]_vars

\* Y1, X2, X3 with two INFO entries retained and a filter of count 1 on X:
\* the filter took 2 out and the older entry 1 stayed
EvictionOrderingWitness ==
    /\ INFO \in DOMAIN retain /\ retainSetup[INFO] = 2
    /\ Len(filters) = 1 /\ filters[1].kind = "Retain" /\ filters[1].index = <<3>>
    /\ last.op = "emit" /\ last.out = "ok"
    /\ retain[INFO] = <<1, 3>> /\ Keys(index) = <<1, 3>>

\* C17: with no filter, the list of a retained level holds the numbers of the
\* most recent min(C, k) of the k records accepted at that level, ascending,
\* and the index items of that level are exactly those.
DefaultFifo ==
    filters = <<>> =>
        \A L \in DOMAIN retainSetup :
            /\ retain[L] = LastOf(SeqsAt(L), retainSetup[L])
            /\ Keys(ItemsOfLevel(index, L)) = retain[L]

\* three INFO records with two retained and no filter: 2 and 3 are kept
DefaultFifoWitness ==
    /\ filters = <<>> /\ INFO \in DOMAIN retain /\ retainSetup[INFO] = 2
    /\ SeqsAt(INFO) = <<1, 2, 3>>
    /\ retain[INFO] = <<2, 3>>

\* C18: filters are consulted in the order they were added; after the first
\* matching LogRetainSuppress no later filter is consulted, so the later
\* filters are unchanged, while the matching LogRetainFilters before it have
\* taken the number in; a LogRetainFilter that does not match the record is
\* unchanged.
FilterOrderStep ==
    LET n == last'.name
        l == last'.levelno
    IN  AcceptStep =>
          /\ Len(filters') = Len(filters)
          /\ last'.out = "suppressed" =>
                /\ Suppressing(n, l) # {}
                /\ LET i == CHOOSE k \in Suppressing(n, l) : \A m \in Suppressing(n, l) : k <= m
                   IN  /\ \A j \in (i + 1)..Len(filters) : filters'[j] = filters[j]
                       /\ \A j \in 1..(i - 1) :
                              Matches(filters[j], "Retain", n, l) =>
                                  /\ filters'[j].index # <<>>
                                  /\ filters'[j].index[Len(filters'[j].index)] = logSeq'
          /\ \A j \in 1..Len(filters) :
                (filters[j].kind = "Retain" /\ ~Matches(filters[j], "Retain", n, l))
                    => filters'[j] = filters[j]

FilterOrder == [][FilterOrderStep]_vars

\* a LogRetainSuppress followed by a LogRetainFilter on the same key, both
\* added before any record: a matching record was suppressed and the later
\* filter has taken nothing in
FilterOrderWitness ==
    /\ Len(filters) = 2 /\ early = <<TRUE, TRUE>>
    /\ filters[1].kind = "Suppress" /\ filters[2].kind = "Retain"
    /\ filters[2].name = filters[1].name /\ filters[2].level = filters[1].level
    /\ last.op = "emit" /\ last.out = "suppressed"
    /\ filters[2].index = <<>>

\* C19: when a filter returns a number that is not in the level's list or
\* not in the index at that moment, emit ends in an exception and the new
\* record gets into neither the index nor a retain list.
\* A returned number is absent at that moment when it was absent before the
\* call or an earlier filter of the chain returns the same number.
AbsentTarget(n, l) ==
    \E i \in Returning(n, l) :
        /\ \A j \in Suppressing(n, l) : j > i
        /\ \/ l \notin DOMAIN retain
           \/ Head(filters[i].index) \notin Range(retain[l])
           \/ ~HasKey(index, Head(filters[i].index))
           \/ \E j \in Returning(n, l) :
                  j < i /\ Head(filters[j].index) = Head(filters[i].index)

ConsistencySurfacesStep ==
    (AcceptStep /\ AbsentTarget(last'.name, last'.levelno))
    => /\ last'.out \in Errors
       /\ ~HasKey(index', logSeq')
       /\ \A L \in DOMAIN retain' : logSeq' \notin Range(retain'[L])

ConsistencySurfaces == [][ConsistencySurfacesStep]_vars

\* an emit has ended in ValueError at a retained level and its record is
\* not in the index
ConsistencySurfacesWitness ==
    /\ last.op = "emit" /\ last.out = "ValueError"
    /\ last.levelno \in DOMAIN retain
    /\ ~HasKey(index, logSeq)

\* C13: a handler whose retain dict holds a count of zero or less is
\* rejected at construction, so no such handler ever accepts a record.
ConfigurationRejected ==
    (\E L \in DOMAIN retainSetup : retainSetup[L] <= 0) => accepted = <<>>

\* ------------------------------------------------------------- retrieval
\* the sequence s in reverse order
Reverse(s) == [i \in 1..Len(s) |-> s[Len(s) + 1 - i]]

\* C11: get() consumed to its end with no record accepted in between yields
\* one line per retained entry, in the reverse of the order of
\* getLogEntries, and then one summary line with the number of retained
\* entries; with nothing retained only the summary line, with 0.
DumpOrder ==
    (gen.pc = "done" /\ gen.at = logSeq) =>
        /\ gen.lines = Reverse(getLogEntries)
        /\ gen.summary = <<Len(getLogEntries)>>

\* a traversal has ended on an index of two entries of different levels
DumpOrderWitness ==
    /\ gen.pc = "done" /\ gen.at = logSeq
    /\ Len(gen.lines) = 2 /\ gen.summary = <<2>>
    /\ gen.lines[1][2][2] # gen.lines[2][2][2]

\* C12: getLogEntries() and get() change neither logSeq nor a filter nor a
\* retain list nor the index, and a getLogEntries() call right after
\* another yields what the first one yielded.
RetrievalStep ==
    /\ last'.op \in {"entries", "get"} => UNCHANGED <<logSeq, filters, retain, index>>
    /\ (last.op = "entries" /\ last'.op = "entries") => last'.res = last.res

IdempotentRetrieval == [][RetrievalStep]_vars

\* getLogEntries() has just yielded two entries from a handler whose filter
\* holds a number
IdempotentRetrievalWitness ==
    /\ last.op = "entries" /\ Len(last.res) = 2 /\ last.res = getLogEntries
    /\ logSeq > 0
    /\ \E i \in 1..Len(filters) : filters[i].index # <<>>

\* C20: a get() traversal consumed line by line with emit calls in between
\* never fails: every key of its snapshot is still in the index when its
\* line is produced.
DumpNeverFails == gen.pc # "failed"

====
